---- MODULE Spec2Model ----
(***************************************************************************)
(* Model of katichai's embedding pipeline: the Hybrid embedding provider   *)
(* and the similarity search (internal/embeddings/similarity.go), the      *)
(* embedding Generator with its SaveIndex / LoadIndex (unnamed/part_003),  *)
(* the Analyzer and the Go parser that feed it (internal/git/commit.go,    *)
(* internal/analysis/parser_go.go) and the `context build` and `context    *)
(* clear` commands that drive them (internal/cmd/context.go).              *)
(***************************************************************************)
EXTENDS Integers, Sequences, FiniteSets, TLC

\* ------------------------------------------------------------------ bounds
\* Functions the analysis finds in each source file.
MaxFuncs == 1
\* Goroutines sharing one HybridProvider in the concurrent specification.
NumWorkers == 2
\* GenerateEmbedding calls each of those goroutines makes.
MaxCalls == 2

\* Entries of an index that is searched.
MaxEntries == 3
\* Syntax nodes in the body of a function whose complexity is computed.
MaxNodes == 3

\* ------------------------------------------------------- program constants
OllamaDim == 768
OpenAIDim == 1536

\* The source files of the repository (keys of AnalysisResult.Files).
FileList == <<"a.go", "b.go">>

Files == {FileList[i] : i \in 1..Len(FileList)}

\* ------------------------------------------------------------- data types
\* analysis.FunctionInfo as GenerateForAnalysis reads it, with the key of
\* analysisResult.Files it was found under.
FileFuncs(f) == [i \in 1..MaxFuncs |-> [file |-> f, func |-> "fn", line |-> i]]

AllUnits == {FileFuncs(f)[i] : f \in Files, i \in 1..MaxFuncs}

\* A []float32 embedding, abstracted to the backend that produced it (its
\* embedding space) and its length.
NoVec == [prov |-> "", len |-> 0]

\* EmbeddingIndex; NoIndex is the nil *EmbeddingIndex.
NoIndex == [Embeddings |-> <<>>, Dimension |-> 0, Provider |-> "", Version |-> ""]

\* Content of .katich/embeddings.json: missing, bytes that are not a JSON
\* document of an EmbeddingIndex (empty or cut short), or a document.
Absent == [kind |-> "absent", doc |-> NoIndex]
Corrupt == [kind |-> "corrupt", doc |-> NoIndex]
Doc(ix) == [kind |-> "doc", doc |-> ix]

\* The functions of the files o[i], o[i+1], ... in that order: the order in
\* which the two nested loops of GenerateForAnalysis visit them.
RECURSIVE Flatten(_, _)
Flatten(o, i) ==
    IF i > Len(o) THEN <<>> ELSE FileFuncs(o[i]) \o Flatten(o, i + 1)

\* A generateID that puts the three values side by side.
generateID_NoSeparator(file, func, line) == file \o func \o ToString(line)

\* generateID: the SHA-256 of "file:func:line", cut to 8 bytes and printed
\* in hex.  The digest is taken to be collision-free, so the id stands for
\* the string that is hashed.
generateID(file, func, line) ==
    file \o ":" \o func \o ":" \o ToString(line)

\* A CodeEmbedding whose id also depends on the backend that embedded it.
CodeEmbedding_ProviderID(u, vec) ==
    [ID |-> generateID(u.file, vec.prov \o "/" \o u.func, u.line),
     FilePath |-> u.file, FuncName |-> u.func, StartLine |-> u.line,
     Embedding |-> vec]

\* The CodeEmbedding GenerateForAnalysis appends for function u.
CodeEmbedding(u, vec) ==
    [ID |-> generateID(u.file, u.func, u.line),
     FilePath |-> u.file, FuncName |-> u.func, StartLine |-> u.line,
     Embedding |-> vec]

\* The document a build writes when Ollama answers every call properly.
BaselineDoc ==
    LET us == Flatten(FileList, 1)
    IN  Doc([Embeddings |-> [i \in 1..Len(us) |->
                 CodeEmbedding(us[i], [prov |-> "Ollama", len |-> OllamaDim])],
             Dimension |-> OllamaDim, Provider |-> "Ollama",
             Version |-> "1.0"])

\* An index document left on disk by a release with another format version.
ForeignDoc == Doc([Embeddings |-> <<>>, Dimension |-> OllamaDim,
                   Provider |-> "Ollama", Version |-> "2.0"])

\* What a backend's HTTP endpoint answers: "err" stands for a transport
\* error, a non-200 status or an undecodable body; "ok" carries the length
\* of the embedding array in the decoded body.
Responses == {[status |-> "err", len |-> 0]} \cup
             {[status |-> "ok", len |-> n] : n \in {0, OllamaDim, OpenAIDim}}

\* ------------------------------------------------------------ providers
\* An OllamaProvider that hands an empty embedding on to its caller.
OllamaGenerateEmbedding_EmptyOk(up, r) ==
    IF ~up \/ r.status = "err" THEN [err |-> "ollama", vec |-> NoVec]
    ELSE [err |-> "nil", vec |-> [prov |-> "Ollama", len |-> r.len]]

\* OllamaProvider.GenerateEmbedding: (vector, error).
OllamaGenerateEmbedding(up, r) ==
    IF ~up \/ r.status = "err" THEN [err |-> "ollama", vec |-> NoVec]
    ELSE IF r.len = 0 THEN [err |-> "ollama", vec |-> NoVec]
    ELSE [err |-> "nil", vec |-> [prov |-> "Ollama", len |-> r.len]]

\* OpenAIProvider.GenerateEmbedding: (vector, error).
OpenAIGenerateEmbedding(r) ==
    IF r.status = "err" THEN [err |-> "openai", vec |-> NoVec]
    ELSE IF r.len = 0 THEN [err |-> "openai", vec |-> NoVec]
    ELSE [err |-> "nil", vec |-> [prov |-> "OpenAI", len |-> r.len]]

\* A constructor that takes Local to be up without asking it.
OllamaIsAvailable_Skipped(up) == TRUE

\* OllamaProvider.IsAvailable: GET /api/tags answers 200.
OllamaIsAvailable(up) == up

\* A HybridProvider that forgets to clear the flag.
AfterLocalFailure_Kept(use) == use

\* The value of p.useOllama after a Local failure inside GenerateEmbedding.
AfterLocalFailure(use) == FALSE

\* A HybridProvider that calls Local a second time before it gives up on it.
HybridGenerateEmbedding_RetryLocal(use, oa, up, lr, rr) ==
    LET l == OllamaGenerateEmbedding(up, lr)
        o == OpenAIGenerateEmbedding(rr)
    IN  IF use /\ l.err = "nil"
        THEN [err |-> "nil", vec |-> l.vec, use |-> use,
              local |-> TRUE, localErr |-> FALSE, remote |-> FALSE,
              nlocal |-> 1, nremote |-> 0, remoteErr |-> "none"]
        ELSE IF oa
             THEN [err |-> o.err, vec |-> o.vec, use |-> FALSE,
                   local |-> use, localErr |-> use, remote |-> TRUE,
                   nlocal |-> IF use THEN 2 ELSE 0, nremote |-> 1,
                   remoteErr |-> o.err]
             ELSE [err |-> "unavailable", vec |-> NoVec, use |-> FALSE,
                   local |-> use, localErr |-> use, remote |-> FALSE,
                   nlocal |-> IF use THEN 2 ELSE 0, nremote |-> 0,
                   remoteErr |-> "none"]

\* HybridProvider.GenerateEmbedding run to completion by one caller: the
\* returned (vector, error), the new p.useOllama, which backends were
\* contacted and how many times, whether the Local call failed, and the
\* error of the Remote call ("none" when Remote was not called).
HybridGenerateEmbedding(use, oa, up, lr, rr) ==
    LET l == OllamaGenerateEmbedding(up, lr)
        o == OpenAIGenerateEmbedding(rr)
    IN  IF use /\ l.err = "nil"
        THEN [err |-> "nil", vec |-> l.vec, use |-> use,
              local |-> TRUE, localErr |-> FALSE, remote |-> FALSE,
              nlocal |-> 1, nremote |-> 0, remoteErr |-> "none"]
        ELSE LET use2 == IF use THEN AfterLocalFailure(use) ELSE use
             IN  IF oa
                 THEN [err |-> o.err, vec |-> o.vec, use |-> use2,
                       local |-> use, localErr |-> use, remote |-> TRUE,
                       nlocal |-> IF use THEN 1 ELSE 0, nremote |-> 1,
                       remoteErr |-> o.err]
                 ELSE [err |-> "unavailable", vec |-> NoVec, use |-> use2,
                       local |-> use, localErr |-> use, remote |-> FALSE,
                       nlocal |-> IF use THEN 1 ELSE 0, nremote |-> 0,
                       remoteErr |-> "none"]

\* HybridProvider.GetDimension.
HybridGetDimension(use, oa) ==
    IF use THEN OllamaDim ELSE IF oa THEN OpenAIDim ELSE OllamaDim

\* HybridProvider.GetName.
HybridGetName(use, oa) ==
    IF use THEN "Ollama" ELSE IF oa THEN "OpenAI" ELSE "None"

\* LoadIndex: (index, error).
LoadIndex(file) ==
    IF file.kind = "absent" THEN [err |-> "read", index |-> NoIndex]
    ELSE IF file.kind = "corrupt" THEN [err |-> "unmarshal", index |-> NoIndex]
    ELSE [err |-> "nil", index |-> file.doc]

NotLoaded == [err |-> "none", index |-> NoIndex]

NoUnit == [file |-> "", func |-> "", line |-> 0]

\* ------------------------------------------------------ similarity search
\* The functions a queried index holds entries for: two of them share file
\* and name and differ in their start line, as two init functions of one Go
\* file do.
QueryUnits ==
    {[file |-> "a.go", func |-> "fn", line |-> 1],
     [file |-> "a.go", func |-> "fn", line |-> 9],
     [file |-> "b.go", func |-> "fn", line |-> 1],
     [file |-> "b.go", func |-> "fn", line |-> 9]}

\* The []float32 vectors of the queried index and of the queries.  Their
\* norms (0, 1 and 5) and their cosines (0, 0.6 and 1) are exact in
\* floating point, so the arithmetic below is the code's.
QueryVectors == {<<1, 0>>, <<3, 4>>, <<0, 0>>}

\* Every order in which GenerateForAnalysis can have appended entries for up
\* to MaxEntries distinct functions.
QueryIndexes ==
    LET E == {CodeEmbedding(u, v) : u \in QueryUnits, v \in QueryVectors}
    IN  UNION {{ix \in [1..n -> E] :
                   \A i, j \in 1..n : i # j => ix[i].ID # ix[j].ID} :
               n \in 0..MaxEntries}

\* The sum of a[i] * b[i] from index i on.
RECURSIVE Dot(_, _, _)
Dot(a, b, i) == IF i > Len(a) THEN 0 ELSE a[i] * b[i] + Dot(a, b, i + 1)

\* math.Sqrt on the norms that occur.
Sqrt(n) == CHOOSE r \in 0..n : r * r <= n /\ (r + 1) * (r + 1) > n

\* A cosineSimilarity that leaves out the division by the norms.
cosineSimilarity_Unnormalised(a, b) ==
    IF Len(a) # Len(b) THEN 0 ELSE 100 * Dot(a, b, 1)

\* A cosineSimilarity that gives vectors of different lengths the lowest
\* similarity.
cosineSimilarity_MismatchLowest(a, b) ==
    IF Len(a) # Len(b) THEN -100
    ELSE IF Dot(a, a, 1) = 0 \/ Dot(b, b, 1) = 0 THEN 0
    ELSE (100 * Dot(a, b, 1)) \div (Sqrt(Dot(a, a, 1)) * Sqrt(Dot(b, b, 1)))

\* cosineSimilarity; a similarity is held in hundredths.
cosineSimilarity(a, b) ==
    IF Len(a) # Len(b) THEN 0
    ELSE LET dotProduct == Dot(a, b, 1)
             normA == Dot(a, a, 1)
             normB == Dot(b, b, 1)
         IN  IF normA = 0 \/ normB = 0 THEN 0
             ELSE (100 * dotProduct) \div (Sqrt(normA) * Sqrt(normB))

\* SimilarityResult: a CodeEmbedding with its similarity.
SimilarityResult(e, sim) ==
    [ID |-> e.ID, FilePath |-> e.FilePath, FuncName |-> e.FuncName,
     StartLine |-> e.StartLine, Embedding |-> e.Embedding,
     Similarity |-> sim]

\* A Search that leaves the results in index order.
SortSlice_Unsorted(rs) == rs

\* sort.Slice(results, less) with less(i, j) = results[i].Similarity >
\* results[j].Similarity.  For slices this short sort.Slice is an insertion
\* sort: each element moves left while it is strictly greater than its
\* left neighbour.
RECURSIVE SortSlice(_)
SortSlice(rs) ==
    IF Len(rs) <= 1 THEN rs
    ELSE LET n == Len(rs)
             s == SortSlice(SubSeq(rs, 1, n - 1))
             r == rs[n]
             p == Cardinality({i \in 1..(n - 1) :
                                  s[i].Similarity >= r.Similarity})
         IN  SubSeq(s, 1, p) \o <<r>> \o SubSeq(s, p + 1, n - 1)

\* A Search that slices with topK as given.
ClampTopK_None(topK, n) == topK

\* Search, lines 51-53: topK is cut down to the number of results.
ClampTopK(topK, n) == IF topK > n THEN n ELSE topK

\* SimilaritySearch.Search: the results, or the run-time panic of the slice
\* expression results[:topK] when topK is out of range.
Search(ix, queryEmbedding, topK) ==
    IF Len(ix) = 0 THEN [panic |-> FALSE, results |-> <<>>]
    ELSE LET scored == [i \in 1..Len(ix) |->
                 SimilarityResult(ix[i],
                     cosineSimilarity(queryEmbedding, ix[i].Embedding))]
             results == SortSlice(scored)
             k == ClampTopK(topK, Len(results))
         IN  IF k < 0 \/ k > Len(results)
             THEN [panic |-> TRUE, results |-> <<>>]
             ELSE [panic |-> FALSE, results |-> SubSeq(results, 1, k)]

\* SimilaritySearch.FindDuplicates.
FindDuplicates(ix, queryEmbedding, threshold, excludeID) ==
    LET results == Search(ix, queryEmbedding, Len(ix)).results
        Keep(r) == r.ID # excludeID /\ r.Similarity >= threshold
    IN  SelectSeq(results, Keep)

\* A NewDuplicateDetector that has no default.
NewDuplicateDetector_Keep(threshold) == threshold

\* NewDuplicateDetector: the threshold the detector works with.
NewDuplicateDetector(threshold) == IF threshold = 0 THEN 85 ELSE threshold

\* A DetectDuplicates that filters nothing out.
SameSymbol_Never(dup, filePath, funcName) == FALSE

\* DetectDuplicates, line 146: the test that drops a result.
SameSymbol(dup, filePath, funcName) ==
    ~(dup.FilePath # filePath \/ dup.FuncName # funcName)

\* DuplicateDetector.DetectDuplicates on a detector made with the given
\* threshold; g is what provider.GenerateEmbedding(code) returned.
DetectDuplicates(ix, g, threshold, filePath, funcName) ==
    IF g.err # "nil" THEN [err |-> "embed", results |-> <<>>]
    ELSE LET duplicates == FindDuplicates(ix, g.vec,
                               NewDuplicateDetector(threshold), "")
             Keep(dup) == ~SameSymbol(dup, filePath, funcName)
         IN  [err |-> "nil", results |-> SelectSeq(duplicates, Keep)]

\* A GetSimilarityLevel whose edges belong to the band below.
GetSimilarityLevel_Strict(similarity) ==
    IF similarity > 95 THEN "Nearly Identical"
    ELSE IF similarity > 85 THEN "Very Similar"
    ELSE IF similarity > 75 THEN "Similar"
    ELSE IF similarity > 60 THEN "Somewhat Similar"
    ELSE "Different"

\* GetSimilarityLevel on a similarity in hundredths.
GetSimilarityLevel(similarity) ==
    IF similarity >= 95 THEN "Nearly Identical"
    ELSE IF similarity >= 85 THEN "Very Similar"
    ELSE IF similarity >= 75 THEN "Similar"
    ELSE IF similarity >= 60 THEN "Somewhat Similar"
    ELSE "Different"

\* What is recorded of a query: the call and its arguments, its outcome,
\* and for Search the outcome of the same call on the reordered index.
NoQuery == [op |-> "none", k |-> 0, threshold |-> 0, unit |-> NoUnit,
            err |-> "none", panic |-> FALSE, results |-> <<>>,
            other |-> <<>>, level |-> ""]

\* What is recorded of a GenerateEmbedding call: the function it was made
\* for, the backends it contacted, its error, whether an earlier call on the
\* same provider had seen Local fail, and whether Local was up at the time.
NoCall == [unit |-> NoUnit, local |-> FALSE, remote |-> FALSE, err |-> "none",
           prov |-> "", afterFail |-> FALSE, localWasUp |-> FALSE,
           nlocal |-> 0, nremote |-> 0, localErr |-> FALSE,
           remoteErr |-> "none"]

CallRecord(u, g, failedBefore, up) ==
    [unit |-> u, local |-> g.local, remote |-> g.remote, err |-> g.err,
     prov |-> g.vec.prov, afterFail |-> failedBefore, localWasUp |-> up,
     nlocal |-> g.nlocal, nremote |-> g.nremote, localErr |-> g.localErr,
     remoteErr |-> g.remoteErr]

\* ---------------------------------------------------------------- analysis
\* The syntax nodes ast.Inspect visits inside a function declaration, in
\* the order it visits them.  A binary expression carries its operator.
Node(kind, op) == [kind |-> kind, op |-> op]

Nodes ==
    {Node("IfStmt", ""), Node("ForStmt", ""), Node("RangeStmt", ""),
     Node("CaseClause", ""), Node("CommClause", ""),
     Node("BinaryExpr", "&&"), Node("BinaryExpr", "||"),
     Node("BinaryExpr", "+"), Node("CallExpr", "")}

\* A calculateComplexity that counts every binary expression.
RECURSIVE calculateComplexity_EveryBinary(_)
calculateComplexity_EveryBinary(body) ==
    IF body = <<>> THEN 1
    ELSE calculateComplexity_EveryBinary(Tail(body)) +
         (IF Head(body).kind \in {"IfStmt", "ForStmt", "RangeStmt",
                                   "CaseClause", "CommClause", "BinaryExpr"}
          THEN 1 ELSE 0)

\* GoParser.calculateComplexity: complexity starts at 1 and the callback of
\* ast.Inspect increments it node by node.
RECURSIVE calculateComplexity(_)
calculateComplexity(body) ==
    IF body = <<>> THEN 1
    ELSE LET n == Head(body)
             inc == CASE n.kind = "IfStmt" -> 1
                      [] n.kind = "ForStmt" -> 1
                      [] n.kind = "RangeStmt" -> 1
                      [] n.kind = "CaseClause" -> 1
                      [] n.kind = "CommClause" -> 1
                      [] n.kind = "BinaryExpr" ->
                             IF n.op = "&&" \/ n.op = "||" THEN 1 ELSE 0
                      [] OTHER -> 0
         IN  inc + calculateComplexity(Tail(body))

\* A function declaration in a Go source file.
FuncDecl(name, line, body) == [name |-> name, line |-> line, body |-> body]

\* GoParser.extractFunction: the FunctionInfo of a declaration.
extractFunction(d) ==
    [Name |-> d.name, StartLine |-> d.line,
     Complexity |-> calculateComplexity(d.body)]

\* A source file under the root: its path relative to the root, its
\* language, whether it can be read and (for Go) parsed, and the function
\* declarations in it.
SourceFile(path, lang, ok, funcs) ==
    [path |-> path, lang |-> lang, ok |-> ok, funcs |-> funcs]

\* FileAnalysis as returned for one file, with the error returned.
NoFileAnalysis == [Language |-> "", Functions |-> <<>>]

\* GoParser.ParseFile.
GoParseFile(f) ==
    IF ~f.ok THEN [err |-> "parse", analysis |-> NoFileAnalysis]
    ELSE [err |-> "nil",
          analysis |-> [Language |-> "Go",
                        Functions |-> [i \in 1..Len(f.funcs) |->
                                          extractFunction(f.funcs[i])]]]

\* Analyzer.basicAnalysis: line counts only, and an empty Functions slice.
basicAnalysis(f) ==
    IF ~f.ok THEN [err |-> "read", analysis |-> NoFileAnalysis]
    ELSE [err |-> "nil",
          analysis |-> [Language |-> f.lang, Functions |-> <<>>]]

\* Analyzer.analyzeFile.
analyzeFile(f) ==
    IF f.lang = "Go" THEN GoParseFile(f) ELSE basicAnalysis(f)

\* The map both AnalyzeRepository and AnalyzeChangedFiles fill: a file that
\* analyzeFile returns an error for is passed over, the others are entered
\* under their path.
AnalyzedFiles(rp, asked) ==
    LET ok == {i \in 1..Len(rp) :
                  rp[i].path \in asked /\ analyzeFile(rp[i]).err = "nil"}
    IN  [p \in {rp[i].path : i \in ok} |->
            analyzeFile(rp[CHOOSE i \in ok : rp[i].path = p]).analysis]

\* The files a result reports as failed.  AnalysisResult has the fields
\* Files, TotalMetrics, IssuesSummary, TopComplexity and LongestFuncs, and
\* AnalyzeChangedFiles returns the map alone: neither has a place for them.
ReportedErrors(rp, asked) == {}

\* What is recorded of an analysis: the call, the paths it was asked to
\* analyse, the error returned, the map of FileAnalysis and the failures
\* reported.
NotAnalysed == [op |-> "none", asked |-> {}, err |-> "none", Files |-> <<>>,
                Errors |-> {}]

\* Analyzer.AnalyzeRepository; walkOk is false when filepath.Walk hands the
\* callback an error for a path, which ends the walk with that error.
AnalyzeRepository(rp, walkOk) ==
    LET all == {rp[i].path : i \in 1..Len(rp)}
    IN  IF ~walkOk
        THEN [op |-> "repository", asked |-> all, err |-> "walk",
              Files |-> <<>>, Errors |-> {}]
        ELSE [op |-> "repository", asked |-> all, err |-> "nil",
              Files |-> AnalyzedFiles(rp, all),
              Errors |-> ReportedErrors(rp, all)]

\* Analyzer.AnalyzeChangedFiles.
AnalyzeChangedFiles(rp, changedFiles) ==
    [op |-> "changed", asked |-> changedFiles, err |-> "nil",
     Files |-> AnalyzedFiles(rp, changedFiles),
     Errors |-> ReportedErrors(rp, changedFiles)]

\* GenerateForAnalysis, lines 62-96 without the embedding call: the
\* functions of the files o[i], o[i+1], ... of the analysis, each with the
\* id it is given.
RECURSIVE VisitedUnits(_, _, _)
VisitedUnits(files, o, i) ==
    IF i > Len(o) THEN <<>>
    ELSE LET fns == files[o[i]].Functions
         IN  [j \in 1..Len(fns) |->
                 [ID |-> generateID(o[i], fns[j].Name, fns[j].StartLine),
                  FilePath |-> o[i], FuncName |-> fns[j].Name,
                  StartLine |-> fns[j].StartLine]]
             \o VisitedUnits(files, o, i + 1)

NoUnits == [done |-> FALSE, list |-> <<>>]

\* ------------------------------------------------------------------ state
VARIABLES
    localUp,       \* the Ollama server answers
    openaiKey,     \* cfg.LLM.APIKey is set
    indexFile,     \* .katich/embeddings.json
    contextFile,   \* .katich/context.json
    pc,            \* where runContextBuild is
    incremental,   \* --incremental
    forceRebuild,  \* --force
    changed,       \* files the version-control diff reports as changed
    queue,         \* functions GenerateForAnalysis has still to visit
    useOllama,     \* HybridProvider.useOllama
    openai,        \* HybridProvider.openai != nil
    index,         \* the EmbeddingIndex GenerateForAnalysis builds
    localFailed,   \* a Local call of this provider has failed
    last,          \* the latest GenerateEmbedding call on this provider
    ncalls,        \* GenerateEmbedding calls made on this provider
    warnings,      \* warning lines GenerateForAnalysis printed
    genErr,        \* the error GenerateForAnalysis returned
    saveErr,       \* what SaveIndex returned
    ctxErr,        \* how writing context.json ended
    diedAt,        \* where the command was when the process was killed
    result,        \* what runContextBuild returned
    prevFile,      \* embeddings.json as it was when this build started
    loaded,        \* what the last LoadIndex returned
    wpc,           \* concurrent callers: position inside GenerateEmbedding
    wcalls,        \* concurrent callers: calls completed
    marks,         \* concurrent callers: writes of useOllama = false
    lateLocal,     \* a Local vector was returned after useOllama was cleared
    probeOk,       \* what the liveness probe of NewHybridProvider found
    qindex,        \* queries: the Embeddings of the index searched
    qvec,          \* queries: the query embedding
    qscore,        \* queries: the similarity handed to GetSimilarityLevel
    qout,          \* queries: the latest call and what it returned
    repo,          \* analysis: the source files under the root, in Walk order
    analysis,      \* analysis: what the Analyzer returned
    units          \* analysis: the functions GenerateForAnalysis visits

vars == <<localUp, openaiKey, indexFile, contextFile, pc, incremental,
          forceRebuild, changed, queue, useOllama, openai, index,
          localFailed, last, ncalls,
          warnings, genErr, saveErr, ctxErr, diedAt, result, prevFile,
          loaded,
          wpc, wcalls, marks, lateLocal, probeOk, qindex, qvec, qscore, qout,
          repo, analysis, units>>

envVars == <<localUp, openaiKey>>
diskVars == <<indexFile, contextFile>>
flagVars == <<incremental, forceRebuild, changed>>
provVars == <<useOllama, openai, localFailed, last, ncalls, probeOk>>
genVars == <<queue, index, warnings, genErr>>
retVars == <<saveErr, ctxErr, diedAt, result>>
concVars == <<wpc, wcalls, marks, lateLocal>>
queryVars == <<qindex, qvec, qscore, qout>>
anaVars == <<repo, analysis, units>>

Workers == 1..NumWorkers

\* No analysis is being looked at.
NoAnalysis ==
    /\ repo = <<>>
    /\ analysis = NotAnalysed
    /\ units = NoUnits

\* ------------------------------------------------------------------- Init
Init ==
    /\ localUp \in BOOLEAN
    /\ openaiKey \in BOOLEAN
    /\ indexFile \in {Absent, Corrupt, ForeignDoc, BaselineDoc}
    /\ contextFile = "absent"
    /\ pc = "idle"
    /\ incremental \in BOOLEAN
    /\ forceRebuild \in BOOLEAN
    /\ changed \in (IF indexFile.kind = "doc" THEN SUBSET Files ELSE {Files})
    /\ queue = <<>>
    /\ useOllama = FALSE
    /\ openai = FALSE
    /\ index = NoIndex
    /\ localFailed = FALSE
    /\ last = NoCall
    /\ ncalls = 0
    /\ warnings = 0
    /\ genErr = "none"
    /\ saveErr = "none"
    /\ ctxErr = "none"
    /\ diedAt = "none"
    /\ result = "none"
    /\ prevFile = indexFile
    /\ loaded = NotLoaded
    /\ wpc = [w \in Workers |-> "off"]
    /\ wcalls = [w \in Workers |-> 0]
    /\ marks = 0
    /\ lateLocal = FALSE
    /\ probeOk = FALSE
    /\ qindex = <<>>
    /\ qvec = <<>>
    /\ qscore = 0
    /\ qout = NoQuery
    /\ NoAnalysis

\* ------------------------------------------------------------ environment
\* The Ollama server goes down or comes back while calls are being made.
LocalToggle ==
    /\ pc \in {"embed", "workers"}
    /\ localUp' = ~localUp
    /\ UNCHANGED <<openaiKey, diskVars, pc, flagVars, provVars, genVars,
                   retVars, prevFile, loaded, concVars, queryVars, anaVars>>

\* ------------------------------------------------------- runContextBuild
\* The orders in which `range analysisResult.Files` may visit the files.
FileOrders ==
    {o \in [1..Len(FileList) -> Files] :
        \A i, j \in 1..Len(FileList) : i # j => o[i] # o[j]}

\* runContextBuild up to the embedding stage: the repository is found,
\* scanned and analysed.  Any of these may fail, which returns the error.
\* The flags are printed at most; neither they nor a changed set are read.
BuildStart ==
    /\ pc = "idle"
    /\ \E scanOk \in BOOLEAN :
          IF scanOk
          THEN /\ \E o \in FileOrders : queue' = Flatten(o, 1)
               /\ result' = "none"
               /\ pc' = "provider"
          ELSE /\ queue' = <<>>
               /\ result' = "error"
               /\ pc' = "done"
    /\ UNCHANGED <<envVars, diskVars, flagVars, provVars, index, warnings,
                   genErr, saveErr, ctxErr, diedAt, prevFile, loaded,
                   concVars, queryVars, anaVars>>

\* embeddings.NewHybridProvider: the OpenAI backend exists when a key is
\* configured; useOllama is the answer of the liveness probe.
NewHybridProvider ==
    /\ pc = "provider"
    /\ openai' = openaiKey
    /\ useOllama' = OllamaIsAvailable(localUp)
    /\ probeOk' = localUp
    /\ localFailed' = FALSE
    /\ last' = NoCall
    /\ ncalls' = 0
    /\ pc' = "generate"
    /\ UNCHANGED <<envVars, diskVars, flagVars, genVars, retVars, prevFile,
                   loaded, concVars, queryVars, anaVars>>

\* GenerateForAnalysis, lines 49-54: the index header is filled in from the
\* provider before any function is embedded.
GenerateBegin ==
    /\ pc = "generate"
    /\ index' = [Embeddings |-> <<>>,
                 Dimension |-> HybridGetDimension(useOllama, openai),
                 Provider |-> HybridGetName(useOllama, openai),
                 Version |-> "1.0"]
    /\ pc' = "embed"
    /\ UNCHANGED <<envVars, diskVars, flagVars, provVars, queue, warnings,
                   genErr, retVars, prevFile, loaded, concVars, queryVars, anaVars>>

\* What GenerateForAnalysis does with the outcome g of the embedding call
\* for function u: on an error it warns and continues, otherwise it appends
\* the entry.
AfterEmbedding(ix, w, u, g) ==
    IF g.err # "nil"
    THEN [index |-> ix, warnings |-> w + 1]
    ELSE [index |-> [ix EXCEPT !.Embeddings = Append(@, CodeEmbedding(u, g.vec))],
          warnings |-> w]

\* One iteration of the loop over the functions.
EmbedUnit ==
    /\ pc = "embed"
    /\ queue # <<>>
    /\ \E lr \in Responses, rr \in Responses :
          LET u == Head(queue)
              g == HybridGenerateEmbedding(useOllama, openai, localUp, lr, rr)
              a == AfterEmbedding(index, warnings, u, g)
          IN  /\ useOllama' = g.use
              /\ last' = CallRecord(u, g, localFailed, localUp)
              /\ localFailed' = (localFailed \/ g.localErr)
              /\ ncalls' = ncalls + 1
              /\ index' = a.index
              /\ warnings' = a.warnings
    /\ queue' = Tail(queue)
    /\ UNCHANGED <<envVars, diskVars, flagVars, openai, probeOk, pc, genErr,
                   retVars, prevFile, loaded, concVars, queryVars, anaVars>>

\* GenerateForAnalysis returns (index, nil); runContextBuild takes the else
\* branch and calls SaveIndex.
GenerateReturn ==
    /\ pc = "embed"
    /\ queue = <<>>
    /\ genErr' = "nil"
    /\ pc' = "save_mkdir"
    /\ UNCHANGED <<envVars, diskVars, flagVars, provVars, queue, index,
                   warnings, retVars, prevFile, loaded, concVars, queryVars, anaVars>>

\* SaveIndex: os.MkdirAll of the target's directory.  On an error
\* runContextBuild warns and goes on to context.json.
SaveMkdir ==
    /\ pc = "save_mkdir"
    /\ \E ok \in BOOLEAN :
          IF ok THEN /\ pc' = "save_open"
                     /\ saveErr' = saveErr
          ELSE /\ pc' = "ctx_mkdir"
               /\ saveErr' = "mkdir"
    /\ UNCHANGED <<envVars, diskVars, flagVars, provVars, genVars, ctxErr,
                   diedAt, result, prevFile, loaded, concVars, queryVars, anaVars>>

\* The file os.WriteFile leaves once it has opened the target: it opens
\* the target itself with O_TRUNC, so the old content is gone.
OpenedForWrite(old) == Corrupt

\* SaveIndex: os.WriteFile opens embeddings.json.
SaveOpen ==
    /\ pc = "save_open"
    /\ \E ok \in BOOLEAN :
          IF ok THEN /\ indexFile' = OpenedForWrite(indexFile)
                     /\ pc' = "save_data"
                     /\ saveErr' = saveErr
          ELSE /\ indexFile' = indexFile
               /\ pc' = "ctx_mkdir"
               /\ saveErr' = "write"
    /\ UNCHANGED <<envVars, contextFile, flagVars, provVars, genVars, ctxErr,
                   diedAt, result, prevFile, loaded, concVars, queryVars, anaVars>>

\* SaveIndex: os.WriteFile writes the marshalled index and closes; a failed
\* write leaves whatever part was written.
SaveData ==
    /\ pc = "save_data"
    /\ \E ok \in BOOLEAN :
          IF ok THEN /\ indexFile' = Doc(index)
                     /\ saveErr' = "nil"
          ELSE /\ indexFile' = Corrupt
               /\ saveErr' = "write"
    /\ pc' = "ctx_mkdir"
    /\ UNCHANGED <<envVars, contextFile, flagVars, provVars, genVars, ctxErr,
                   diedAt, result, prevFile, loaded, concVars, queryVars, anaVars>>

\* What runContextBuild returns given how SaveIndex and the write of
\* context.json ended: only the latter is returned.
BuildResult(se, ce) == IF ce = "nil" THEN "nil" ELSE "error"

\* runContextBuild, lines 256-261: the directory of context.json.
ContextMkdir ==
    /\ pc = "ctx_mkdir"
    /\ \E ok \in BOOLEAN :
          IF ok THEN /\ pc' = "ctx_write"
                     /\ UNCHANGED <<ctxErr, result>>
          ELSE /\ pc' = "done"
               /\ ctxErr' = "mkdir"
               /\ result' = BuildResult(saveErr, "mkdir")
    /\ UNCHANGED <<envVars, diskVars, flagVars, provVars, genVars, saveErr,
                   diedAt, prevFile, loaded, concVars, queryVars, anaVars>>

\* runContextBuild, lines 263-280: context.json is written with
\* os.WriteFile and the command returns.
ContextWrite ==
    /\ pc = "ctx_write"
    /\ \E out \in {"openfail", "writefail", "ok"} :
          /\ contextFile' = CASE out = "openfail" -> contextFile
                              [] out = "writefail" -> "corrupt"
                              [] OTHER -> "present"
          /\ ctxErr' = IF out = "ok" THEN "nil" ELSE "write"
          /\ result' = BuildResult(saveErr, IF out = "ok" THEN "nil" ELSE "write")
    /\ pc' = "done"
    /\ UNCHANGED <<envVars, indexFile, flagVars, provVars, genVars, saveErr,
                   diedAt, prevFile, loaded, concVars, queryVars, anaVars>>

\* The process is killed while the command runs.
Crash ==
    /\ pc \in {"provider", "generate", "embed", "save_mkdir", "save_open",
               "save_data", "ctx_mkdir", "ctx_write"}
    /\ diedAt' = pc
    /\ pc' = "crashed"
    /\ UNCHANGED <<envVars, diskVars, flagVars, provVars, genVars, saveErr,
                   ctxErr, result, prevFile, loaded, concVars, queryVars, anaVars>>

\* What runContextClear leaves of embeddings.json: the path it removes is
\* .katich/embeddings.index, so the file is left as it is.
ClearedIndexFile(file) == file

\* runContextClear after a build has returned: context.json is removed, or
\* the removal fails and the command returns that error; the other
\* removals at most print a warning.  (What follows a build is a load or a
\* clear.)
ContextClear ==
    /\ pc = "done"
    /\ loaded = NotLoaded
    /\ \E removed \in BOOLEAN :
          IF removed
          THEN /\ contextFile' = "absent"
               /\ indexFile' = ClearedIndexFile(indexFile)
               /\ pc' = "cleared"
          ELSE /\ UNCHANGED diskVars
               /\ pc' = "clear_failed"
    /\ UNCHANGED <<envVars, flagVars, provVars, genVars, retVars, prevFile,
                   loaded, concVars, queryVars, anaVars>>

\* After the command has ended, a reader calls LoadIndex on embeddings.json.
Load ==
    /\ pc \in {"done", "crashed"}
    /\ loaded' = LoadIndex(indexFile)
    /\ UNCHANGED <<envVars, diskVars, pc, flagVars, provVars, genVars,
                   retVars, prevFile, concVars, queryVars, anaVars>>

Next ==
    \/ LocalToggle
    \/ BuildStart
    \/ NewHybridProvider
    \/ GenerateBegin
    \/ EmbedUnit
    \/ GenerateReturn
    \/ SaveMkdir
    \/ SaveOpen
    \/ SaveData
    \/ ContextMkdir
    \/ ContextWrite
    \/ Crash
    \/ ContextClear
    \/ Load

Spec == Init /\ [][Next]_vars

\* ------------------------------------------- concurrent callers of Hybrid
\* Goroutines that share one HybridProvider and call GenerateEmbedding on it
\* with no lock of their own.  HybridProvider holds useOllama as a plain
\* bool, so each statement of GenerateEmbedding is a step of its own and
\* the steps of different goroutines interleave.  (The unsynchronised
\* accesses are a data race; for a bool the outcomes are the old or the new
\* value, which the interleavings produce.)
InitConc ==
    /\ localUp \in BOOLEAN
    /\ openaiKey \in BOOLEAN
    /\ indexFile = Absent
    /\ contextFile = "absent"
    /\ pc = "workers"
    /\ incremental = TRUE
    /\ forceRebuild = FALSE
    /\ changed = Files
    /\ queue = <<>>
    /\ useOllama = OllamaIsAvailable(localUp)
    /\ openai = openaiKey
    /\ index = NoIndex
    /\ localFailed = FALSE
    /\ last = NoCall
    /\ ncalls = 0
    /\ warnings = 0
    /\ genErr = "none"
    /\ saveErr = "none"
    /\ ctxErr = "none"
    /\ diedAt = "none"
    /\ result = "none"
    /\ prevFile = Absent
    /\ loaded = NotLoaded
    /\ wpc = [w \in Workers |-> "idle"]
    /\ wcalls = [w \in Workers |-> 0]
    /\ marks = 0
    /\ lateLocal = FALSE
    /\ probeOk = localUp
    /\ qindex = <<>>
    /\ qvec = <<>>
    /\ qscore = 0
    /\ qout = NoQuery
    /\ NoAnalysis

seqVars == <<openaiKey, diskVars, pc, flagVars, openai, localFailed, last,
             ncalls, genVars, retVars, prevFile, loaded, probeOk, queryVars, anaVars>>

\* Line 380: the caller reads p.useOllama.
WRead(w) ==
    /\ pc = "workers"
    /\ wpc[w] = "idle"
    /\ wcalls[w] < MaxCalls
    /\ wpc' = [wpc EXCEPT ![w] = IF useOllama THEN "local" ELSE "remote"]
    /\ UNCHANGED <<localUp, useOllama, seqVars, wcalls, marks, lateLocal>>

\* Lines 381-384: the call to Ollama; on success the vector is returned.
WLocal(w) ==
    /\ pc = "workers"
    /\ wpc[w] = "local"
    /\ \E lr \in Responses :
          IF OllamaGenerateEmbedding(localUp, lr).err = "nil"
          THEN /\ wpc' = [wpc EXCEPT ![w] = "idle"]
               /\ wcalls' = [wcalls EXCEPT ![w] = @ + 1]
               /\ lateLocal' = (lateLocal \/ ~useOllama)
          ELSE /\ wpc' = [wpc EXCEPT ![w] = "mark"]
               /\ UNCHANGED <<wcalls, lateLocal>>
    /\ UNCHANGED <<localUp, useOllama, seqVars, marks>>

\* Line 386: p.useOllama = false.
WMark(w) ==
    /\ pc = "workers"
    /\ wpc[w] = "mark"
    /\ useOllama' = AfterLocalFailure(useOllama)
    /\ marks' = marks + 1
    /\ wpc' = [wpc EXCEPT ![w] = "remote"]
    /\ UNCHANGED <<localUp, seqVars, wcalls, lateLocal>>

\* Lines 390-394: OpenAI if configured, else the error; the call returns.
WRemote(w) ==
    /\ pc = "workers"
    /\ wpc[w] = "remote"
    /\ wpc' = [wpc EXCEPT ![w] = "idle"]
    /\ wcalls' = [wcalls EXCEPT ![w] = @ + 1]
    /\ UNCHANGED <<localUp, useOllama, seqVars, marks, lateLocal>>

NextConc ==
    \/ LocalToggle
    \/ \E w \in Workers : WRead(w)
    \/ \E w \in Workers : WLocal(w)
    \/ \E w \in Workers : WMark(w)
    \/ \E w \in Workers : WRemote(w)

SpecConc == InitConc /\ [][NextConc]_vars

\* ------------------------------------------------------------------ queries
\* Search and DetectDuplicates on an index that a build has written, and
\* GetSimilarityLevel on a similarity.  No build is running.
buildVars == <<envVars, diskVars, pc, flagVars, provVars, genVars, retVars,
               prevFile, loaded, concVars>>

NoBuild ==
    /\ localUp = FALSE
    /\ openaiKey = FALSE
    /\ indexFile = Absent
    /\ contextFile = "absent"
    /\ incremental = FALSE
    /\ forceRebuild = FALSE
    /\ changed = {}
    /\ queue = <<>>
    /\ useOllama = FALSE
    /\ openai = FALSE
    /\ index = NoIndex
    /\ localFailed = FALSE
    /\ last = NoCall
    /\ ncalls = 0
    /\ warnings = 0
    /\ genErr = "none"
    /\ saveErr = "none"
    /\ ctxErr = "none"
    /\ diedAt = "none"
    /\ result = "none"
    /\ prevFile = Absent
    /\ loaded = NotLoaded
    /\ wpc = [w \in Workers |-> "off"]
    /\ wcalls = [w \in Workers |-> 0]
    /\ marks = 0
    /\ lateLocal = FALSE
    /\ probeOk = FALSE

InitQuery ==
    /\ NoBuild
    /\ pc = "query"
    /\ qindex \in QueryIndexes
    /\ qvec \in QueryVectors
    /\ qscore = 0
    /\ qout = NoQuery
    /\ NoAnalysis

\* The index with its entries in the order perm.
Reordered(ix, perm) == [i \in 1..Len(ix) |-> ix[perm[i]]]

\* The orders of n entries in which at most two entries have changed places.
Reorderings(n) ==
    {perm \in Permutations(1..n) :
        Cardinality({i \in 1..n : perm[i] # i}) <= 2}

\* Search(qvec, topK) on the index, and the same call on an index that holds
\* the same entries appended in another order.
DoSearch ==
    /\ pc = "query"
    /\ qout = NoQuery
    /\ \E topK \in (-1)..(MaxEntries + 1),
          perm \in Reorderings(Len(qindex)) :
          LET s == Search(qindex, qvec, topK)
              t == Search(Reordered(qindex, perm), qvec, topK)
          IN  qout' = [NoQuery EXCEPT !.op = "search", !.k = topK,
                                      !.panic = s.panic,
                                      !.results = s.results,
                                      !.other = t.results]
    /\ UNCHANGED <<buildVars, qindex, qvec, qscore, anaVars>>

\* The thresholds a caller hands to NewDuplicateDetector, in hundredths; 0
\* is what a caller with nothing configured passes.
Thresholds == {-100, 0, 60, 85}

\* DetectDuplicates(code, filePath, funcName) for the function u, whose code
\* the provider embeds as qvec or fails to embed.
DoDetect ==
    /\ pc = "query"
    /\ qout = NoQuery
    /\ \E u \in QueryUnits, threshold \in Thresholds, ok \in BOOLEAN :
          LET g == IF ok THEN [err |-> "nil", vec |-> qvec]
                         ELSE [err |-> "provider", vec |-> <<>>]
              d == DetectDuplicates(qindex, g, threshold, u.file, u.func)
          IN  qout' = [NoQuery EXCEPT !.op = "detect",
                                      !.threshold = threshold, !.unit = u,
                                      !.err = d.err, !.results = d.results]
    /\ UNCHANGED <<buildVars, qindex, qvec, qscore, anaVars>>

NextQuery ==
    \/ DoSearch
    \/ DoDetect

SpecQuery == InitQuery /\ [][NextQuery]_vars

\* Every similarity from -1 to 1, in hundredths.
InitLevel ==
    /\ NoBuild
    /\ pc = "level"
    /\ qindex = <<>>
    /\ qvec = <<>>
    /\ qscore \in (-100)..100
    /\ qout = NoQuery
    /\ NoAnalysis

DoLevel ==
    /\ pc = "level"
    /\ qout = NoQuery
    /\ qout' = [NoQuery EXCEPT !.op = "level",
                               !.level = GetSimilarityLevel(qscore)]
    /\ UNCHANGED <<buildVars, qindex, qvec, qscore, anaVars>>

NextLevel == DoLevel

\* Vectors of lengths 0, 1 and 2 with components of either sign; their
\* norms are 0, 1 and 5 and every cosine among them is a whole number of
\* hundredths.
CosineVectors ==
    {<<1, 0>>, <<-1, 0>>, <<3, 4>>, <<4, 3>>, <<0, 0>>, <<1>>, <<0>>, <<>>}

\* A search on an index of two entries whose vectors, like the query, may
\* have any of these lengths.
InitCosine ==
    /\ NoBuild
    /\ pc = "query"
    /\ qindex \in {<<CodeEmbedding([file |-> "a.go", func |-> "fn", line |-> 1], v),
                      CodeEmbedding([file |-> "b.go", func |-> "fn", line |-> 1], w)>> :
                    v \in CosineVectors, w \in CosineVectors}
    /\ qvec \in CosineVectors
    /\ qscore = 0
    /\ qout = NoQuery
    /\ NoAnalysis

NextCosine == DoSearch

SpecCosine == InitCosine /\ [][NextCosine]_vars

SpecLevel == InitLevel /\ [][NextLevel]_vars

\* ----------------------------------------------------------------- analysis
\* The Analyzer on a repository, and the functions GenerateForAnalysis then
\* visits.  No build is running.
NoQueries ==
    /\ qindex = <<>>
    /\ qvec = <<>>
    /\ qscore = 0
    /\ qout = NoQuery

\* The function declarations a Go file of the repository may hold.  fn1 at
\* line 1 and fn at line 11 spell the same text when name and line are put
\* side by side.
FuncLists ==
    {<<>>,
     <<FuncDecl("fn", 1, <<>>)>>,
     <<FuncDecl("fn1", 1, <<Node("IfStmt", "")>>), FuncDecl("fn", 11, <<>>)>>}

\* Repositories of two Go files (the path of one holds a colon) and one
\* Python file, in the lexical order filepath.Walk visits them.  A file
\* that cannot be read or parsed has no declarations to give.
Repositories ==
    {<<SourceFile("a.go", "Go", ok1, f1),
       SourceFile("a.go:fn/b.go", "Go", ok2, f2),
       SourceFile("c.py", "Python", ok3, <<>>)>> :
        ok1 \in BOOLEAN, f1 \in FuncLists,
        ok2 \in BOOLEAN, f2 \in FuncLists, ok3 \in BOOLEAN}

InitAnalyze ==
    /\ NoBuild
    /\ pc = "analyze"
    /\ NoQueries
    /\ repo \in {rp \in Repositories :
                    \A i \in 1..Len(rp) : ~rp[i].ok => rp[i].funcs = <<>>}
    /\ analysis = NotAnalysed
    /\ units = NoUnits

\* analyzer.AnalyzeRepository().
DoAnalyzeRepository ==
    /\ pc = "analyze"
    /\ analysis = NotAnalysed
    /\ \E walkOk \in BOOLEAN : analysis' = AnalyzeRepository(repo, walkOk)
    /\ UNCHANGED <<buildVars, queryVars, repo, units>>

\* analyzer.AnalyzeChangedFiles(changedFiles) for some of the files.
DoAnalyzeChanged ==
    /\ pc = "analyze"
    /\ analysis = NotAnalysed
    /\ \E changedFiles \in SUBSET {repo[i].path : i \in 1..Len(repo)} :
          analysis' = AnalyzeChangedFiles(repo, changedFiles)
    /\ UNCHANGED <<buildVars, queryVars, repo, units>>

\* The orders in which `range` may visit the keys of a map.
KeyOrders(m) ==
    LET n == Cardinality(DOMAIN m)
    IN  {o \in [1..n -> DOMAIN m] : \A i, j \in 1..n : i # j => o[i] # o[j]}

\* GenerateForAnalysis on the result of AnalyzeRepository.
DoUnits ==
    /\ pc = "analyze"
    /\ analysis.op = "repository"
    /\ analysis.err = "nil"
    /\ ~units.done
    /\ \E o \in KeyOrders(analysis.Files) :
          units' = [done |-> TRUE, list |-> VisitedUnits(analysis.Files, o, 1)]
    /\ UNCHANGED <<buildVars, queryVars, repo, analysis>>

NextAnalyze ==
    \/ DoAnalyzeRepository
    \/ DoAnalyzeChanged
    \/ DoUnits

SpecAnalyze == InitAnalyze /\ [][NextAnalyze]_vars

\* One Go file with one function, whose body is any sequence of up to
\* MaxNodes syntax nodes.
InitComplexity ==
    /\ NoBuild
    /\ pc = "analyze"
    /\ NoQueries
    /\ repo \in {<<SourceFile("a.go", "Go", TRUE, <<FuncDecl("fn", 1, body)>>)>> :
                    body \in UNION {[1..n -> Nodes] : n \in 0..MaxNodes}}
    /\ analysis = NotAnalysed
    /\ units = NoUnits

SpecComplexity == InitComplexity /\ [][NextAnalyze]_vars

\* ------------------------------------------------------------- properties
\* The index the build holds in memory, and the one on disk, as sequences
\* of entries.
Entries(ix) == {ix.Embeddings[i] : i \in 1..Len(ix.Embeddings)}

\* GenerateForAnalysis has returned to runContextBuild.
Generated == genErr = "nil"

\* The number of functions the analysis handed to GenerateForAnalysis.
NumUnits == Cardinality(AllUnits)

\* The dimension each backend declares (GetDimension).
DeclaredDimension(prov) == IF prov = "OpenAI" THEN OpenAIDim ELSE OllamaDim

\* C1: in every Index a build produces, every entry's vector comes from the
\* provider named in the Index's Provider field and has the length given in
\* its Dimension field.  (A vector whose length is not the one its own
\* backend declares is left to C10, so that what is refuted here is the
\* mixing of embedding spaces alone.)
C1_SingleEmbeddingSpace ==
    \A e \in Entries(index) :
        /\ e.Embedding.prov = index.Provider
        /\ (e.Embedding.len = DeclaredDimension(e.Embedding.prov) =>
               e.Embedding.len = index.Dimension)

\* C2: once a Local call of a session has failed, a later call of that
\* session does not contact Local; it contacts Remote when Remote is
\* configured and fails with ProviderUnavailable when it is not.
C2_StickyFailover ==
    (last.err # "none" /\ last.afterFail) =>
        /\ ~last.local
        /\ (openai => last.remote)
        /\ (~openai => last.err = "unavailable")

\* C2 witness: a call made after a Local failure, at a moment when Local was
\* up again, which Remote answered.
C2_Witness ==
    /\ last.afterFail
    /\ last.localWasUp
    /\ last.remote
    /\ last.err = "nil"

\* SaveIndex did not complete: it returned an error, or the process was
\* killed inside it.
SaveInterrupted ==
    \/ saveErr \in {"mkdir", "write"}
    \/ pc = "crashed" /\ diedAt \in {"save_mkdir", "save_open", "save_data"}

\* C3: a crash or failure at any point during SaveIndex leaves the index
\* file that was there before intact and loadable.
C3_AtomicSave ==
    (prevFile.kind = "doc" /\ SaveInterrupted) =>
        /\ indexFile = prevFile
        /\ LoadIndex(indexFile).err = "nil"

\* The number of embedding failures the caller of GenerateForAnalysis can
\* read from what it gets back: the EmbeddingIndex has no field for them, so
\* the returned error is all there is.
ReportedFailures == IF genErr = "nil" THEN 0 ELSE 1

\* C4: a build over N functions of which F fail to embed is not aborted,
\* its Index holds exactly the N-F embedded functions, the caller is told of
\* exactly F failures, and the persisted Index loads.
C4_PartialBuild ==
    Generated =>
        /\ ncalls = NumUnits
        /\ Len(index.Embeddings) = NumUnits - warnings
        /\ ReportedFailures = warnings
        /\ (saveErr = "nil" =>
               LoadIndex(indexFile) = [err |-> "nil", index |-> index])

\* C5: in an incremental build over a baseline, no embedding call is made
\* for a function of a file outside the changed set, and the baseline's
\* entries for such files are carried over identical.
C5_IncrementalFrame ==
    (incremental /\ ~forceRebuild /\ prevFile = BaselineDoc) =>
        /\ (last.err # "none" => last.unit.file \in changed)
        /\ (Generated =>
               \A e \in Entries(prevFile.doc) :
                   e.FilePath \notin changed => e \in Entries(index))

\* C6: concurrent callers never record the same Local failure twice, and
\* none of them is served by Local once another has marked Local unusable.
C6_SingleSyncPoint == marks <= 1 /\ ~lateLocal

\* No function was embedded because no backend was usable.
NothingEmbeddedUnavailable ==
    /\ ncalls > 0
    /\ Len(index.Embeddings) = 0
    /\ last.err = "unavailable"

\* C7: a build that got to the embedding stage and wrote context.json ends
\* Failed only when persisting the Index failed or no function could be
\* embedded for want of a usable provider; in the latter case it does end
\* Failed and persists no Index; and a build with neither ends with its
\* Index persisted.
C7_FailedOnlyWhen ==
    (pc = "done" /\ Generated /\ ctxErr = "nil") =>
        /\ (result = "error" =>
               (saveErr \in {"mkdir", "write"} \/ NothingEmbeddedUnavailable))
        /\ (NothingEmbeddedUnavailable =>
               (result = "error" /\ indexFile = prevFile))
        /\ ((saveErr = "nil" /\ ~NothingEmbeddedUnavailable) =>
               (result = "nil" /\ indexFile = Doc(index)))

\* C8: when writing the Index fails, the build is reported as failed and
\* the index file that was there before is unchanged.
C8_SaveFailureFatal ==
    (pc = "done" /\ saveErr \in {"mkdir", "write"}) =>
        /\ result = "error"
        /\ indexFile = prevFile

\* The major format version of a document, and the reader's own.
MajorVersion(v) == CASE v = "1.0" -> 1 [] v = "2.0" -> 2 [] OTHER -> 0

ReaderMajor == MajorVersion("1.0")

\* C9: loading a document that is corrupt or of another major format
\* version yields no usable Index.
C9_RejectForeign ==
    (loaded.err # "none" /\
       (\/ indexFile.kind = "corrupt"
        \/ (indexFile.kind = "doc" /\
              MajorVersion(indexFile.doc.Version) # ReaderMajor))) =>
        loaded.err # "nil"

\* C10: no Index entry holds a vector whose length differs from the
\* dimension declared by the provider that produced it.
C10_DimensionChecked ==
    \A e \in Entries(index) :
        e.Embedding.len = DeclaredDimension(e.Embedding.prov)

\* C11: one GenerateEmbedding call contacts Local at most once and Remote at
\* most once; when its Local attempt fails and a Remote is configured, it
\* makes exactly one Remote attempt and returns that attempt's outcome.
C11_BoundedRetry ==
    last.err # "none" =>
        /\ last.nlocal <= 1
        /\ last.nremote <= 1
        /\ ((last.localErr /\ openai) =>
               /\ last.nlocal = 1
               /\ last.nremote = 1
               /\ last.err = last.remoteErr
               /\ (last.err = "nil" => last.prov = "OpenAI"))

\* A call whose Local attempt failed and whose Remote attempt answered.
C11_Witness ==
    last.localErr /\ last.nlocal = 1 /\ last.nremote = 1 /\ last.err = "nil"

\* C12: when the probe made at construction found Local unreachable, no
\* GenerateEmbedding call on that provider contacts Local: each call goes to
\* Remote when a credential is configured and otherwise fails with "no
\* embedding provider available" without contacting a backend.
C12_ProbeGatesLocal ==
    (last.err # "none" /\ ~probeOk) =>
        /\ ~last.local
        /\ last.nlocal = 0
        /\ (openai => (last.remote /\ last.nremote = 1 /\
                         last.err = last.remoteErr))
        /\ (~openai => (last.err = "unavailable" /\ ~last.remote /\
                          last.nremote = 0))

\* Local was down at the probe and has come back since; the call still went
\* to Remote only.
C12_Witness ==
    /\ ~probeOk
    /\ last.localWasUp
    /\ last.remote
    /\ ~last.local
    /\ last.err = "nil"

\* C13: when the build is interrupted during the embedding pass, no further
\* embedding call is issued and the units embedded so far are persisted as
\* a valid index that a reader can load.
C13_CancelKeepsPartial ==
    (pc = "crashed" /\ diedAt = "embed" /\ Len(index.Embeddings) > 0) =>
        /\ ncalls = NumUnits - Len(queue)
        /\ LoadIndex(indexFile).err = "nil"
        /\ LoadIndex(indexFile).index.Embeddings = index.Embeddings

\* The similarity of an index entry to the query.
Score(e) == cosineSimilarity(qvec, e.Embedding)

\* The ids a list of results carries.
ResultIDs(rs) == {rs[i].ID : i \in 1..Len(rs)}

\* C14: Search returns its results in descending order of similarity; each
\* result is an entry of the index paired with its cosine similarity to the
\* query, no entry is returned twice, and no entry left out scores strictly
\* higher than one that is returned.
C14_TopKDescending ==
    (qout.op = "search" /\ ~qout.panic) =>
        LET rs == qout.results
        IN  /\ \A i \in 1..(Len(rs) - 1) :
                   rs[i].Similarity >= rs[i + 1].Similarity
            /\ \A i \in 1..Len(rs) : \E j \in 1..Len(qindex) :
                   rs[i] = SimilarityResult(qindex[j], Score(qindex[j]))
            /\ \A i, j \in 1..Len(rs) : i # j => rs[i].ID # rs[j].ID
            /\ \A j \in 1..Len(qindex) :
                   qindex[j].ID \notin ResultIDs(rs) =>
                       \A i \in 1..Len(rs) :
                           Score(qindex[j]) <= rs[i].Similarity

\* A search for fewer entries than the index holds, on an index whose
\* first entry is not the best match: the results carry two different
\* similarities and an entry is left out.
C14_Witness ==
    /\ qout.op = "search"
    /\ Len(qout.results) = qout.k
    /\ qout.k >= 2
    /\ qout.k < Len(qindex)
    /\ qout.results[1].Similarity > qout.results[qout.k].Similarity
    /\ Score(qindex[1]) < qout.results[1].Similarity

\* C15: the ranking Search returns does not depend on the order in which
\* the entries were appended to the index: two indexes holding the same
\* entries give the same list for the same query and k (as they must when
\* entries of equal similarity are ordered by their id).
C15_OrderIndependent ==
    (qout.op = "search" /\ ~qout.panic) => qout.results = qout.other

\* The id of the function DetectDuplicates was called for.
QueriedID == generateID(qout.unit.file, qout.unit.func, qout.unit.line)

\* The threshold the detector of the latest DetectDuplicates call works with.
EffectiveThreshold == IF qout.threshold = 0 THEN 85 ELSE qout.threshold

\* C16: no result of DetectDuplicates carries the id of the function it was
\* called for.
C16_NeverSelf ==
    qout.op = "detect" => QueriedID \notin ResultIDs(qout.results)

\* The index holds the queried function's own entry, which meets the
\* threshold, next to another function's entry that is returned.
C16_Witness ==
    /\ qout.op = "detect"
    /\ qout.err = "nil"
    /\ \E j \in 1..Len(qindex) :
          /\ qindex[j].ID = QueriedID
          /\ Score(qindex[j]) >= EffectiveThreshold
    /\ qout.results # <<>>

\* C17: an index entry with the file path and symbol name of the queried
\* function but another id (another start line) whose similarity meets the
\* threshold is returned by DetectDuplicates.
C17_ExcludedById ==
    (qout.op = "detect" /\ qout.err = "nil") =>
        \A j \in 1..Len(qindex) :
            (/\ qindex[j].FilePath = qout.unit.file
             /\ qindex[j].FuncName = qout.unit.func
             /\ qindex[j].ID # QueriedID
             /\ Score(qindex[j]) >= EffectiveThreshold) =>
                qindex[j].ID \in ResultIDs(qout.results)

\* C18: DetectDuplicates returns exactly the entries other than the queried
\* function's own whose similarity is at least the threshold, each with
\* that similarity; the threshold is the configured one, and 0.85 when none
\* is configured.
C18_ExactlyAboveThreshold ==
    (qout.op = "detect" /\ qout.err = "nil") =>
        /\ ResultIDs(qout.results) =
               {qindex[j].ID : j \in {i \in 1..Len(qindex) :
                    /\ qindex[i].ID # QueriedID
                    /\ Score(qindex[i]) >= EffectiveThreshold}}
        /\ \A i \in 1..Len(qout.results) :
               /\ qout.results[i].Similarity = Score(qout.results[i])
               /\ qout.results[i].Similarity >= EffectiveThreshold

\* The smaller of two integers.
Min(a, b) == IF a < b THEN a ELSE b

\* C19: on an index of n entries Search with k >= 0 returns exactly
\* min(k, n) results and does not fail when k exceeds n.
C19_ClampK ==
    (qout.op = "search" /\ qout.k >= 0) =>
        /\ ~qout.panic
        /\ Len(qout.results) = Min(qout.k, Len(qindex))

\* More results asked for than the (non-empty) index holds.
C19_Witness ==
    /\ qout.op = "search"
    /\ Len(qindex) > 0
    /\ qout.k > Len(qindex)
    /\ Len(qout.results) = Len(qindex)

\* The band a similarity in hundredths falls in, read off the intervals.
Band(x) ==
    CHOOSE b \in {"Nearly Identical", "Very Similar", "Similar",
                  "Somewhat Similar", "Different"} :
        \/ b = "Nearly Identical" /\ x >= 95
        \/ b = "Very Similar" /\ 85 <= x /\ x < 95
        \/ b = "Similar" /\ 75 <= x /\ x < 85
        \/ b = "Somewhat Similar" /\ 60 <= x /\ x < 75
        \/ b = "Different" /\ x < 60

\* C20: GetSimilarityLevel puts a similarity of at least 0.95 in "Nearly
\* Identical", of [0.85, 0.95) in "Very Similar", of [0.75, 0.85) in
\* "Similar", of [0.60, 0.75) in "Somewhat Similar" and anything lower in
\* "Different"; every similarity from -1 to 1 gets exactly one band.
C20_Bands ==
    qout.op = "level" =>
        /\ qout.level = Band(qscore)
        /\ (qout.level = "Nearly Identical") = (qscore >= 95)
        /\ (qout.level = "Very Similar") = (85 <= qscore /\ qscore < 95)
        /\ (qout.level = "Similar") = (75 <= qscore /\ qscore < 85)
        /\ (qout.level = "Somewhat Similar") = (60 <= qscore /\ qscore < 75)
        /\ (qout.level = "Different") = (qscore < 60)

\* A similarity on a lower edge of a band has been classified.
C20_Witness ==
    /\ qout.op = "level"
    /\ qscore = 85
    /\ qout.level = "Very Similar"

\* C21: the similarity Search pairs with an entry whose vector is as long as
\* the query is dot(a,b) / (|a| * |b|), and it is exactly 0 when either
\* vector has norm 0.
C21_CosineFormula ==
    (qout.op = "search" /\ ~qout.panic) =>
        \A i \in 1..Len(qout.results) :
            LET b == qout.results[i].Embedding
                sim == qout.results[i].Similarity
                dot == Dot(qvec, b, 1)
                nn == Dot(qvec, qvec, 1) * Dot(b, b, 1)
            IN  Len(b) = Len(qvec) =>
                    IF nn = 0 THEN sim = 0
                    ELSE /\ sim * sim * nn = 100 * 100 * dot * dot
                         /\ (sim >= 0) = (dot >= 0)

\* One result has a vector of norm 0 and similarity 0, the other a
\* similarity of 0.96.
C21_Witness ==
    /\ qout.op = "search"
    /\ Len(qout.results) = 2
    /\ qout.results[1].Similarity = 96
    /\ qout.results[2].Embedding = <<0, 0>>
    /\ qout.results[2].Similarity = 0

\* C28: an entry whose vector differs in length from the query gets the
\* similarity 0 and is ranked with the others; Search does not fail on it
\* and does not leave it out.
C28_MismatchScoresZero ==
    (qout.op = "search" /\ qout.k >= 0) =>
        /\ ~qout.panic
        /\ Len(qout.results) = Min(qout.k, Len(qindex))
        /\ \A i \in 1..Len(qout.results) :
               Len(qout.results[i].Embedding) # Len(qvec) =>
                   qout.results[i].Similarity = 0

\* An entry of another length is ranked, with similarity 0, above an entry
\* that points away from the query.
C28_Witness ==
    /\ qout.op = "search"
    /\ Len(qout.results) = 2
    /\ Len(qout.results[1].Embedding) # Len(qvec)
    /\ qout.results[1].Similarity = 0
    /\ qout.results[2].Similarity < 0

\* The ids of the entries of other symbols than the queried one whose
\* similarity is at least t.
OthersAtLeast(t) ==
    {qindex[j].ID : j \in {i \in 1..Len(qindex) :
        /\ (qindex[i].FilePath # qout.unit.file \/
              qindex[i].FuncName # qout.unit.func)
        /\ Score(qindex[i]) >= t}}

\* C30: a detector made with the threshold 0 works with 0.85, and one made
\* with any other threshold, negative ones included, works with that
\* threshold: of the entries of other symbols it returns those at or above
\* it, so with 0 it leaves out the entries between 0 and 0.85.
C30_ZeroMeansDefault ==
    (qout.op = "detect" /\ qout.err = "nil") =>
        IF qout.threshold = 0
        THEN ResultIDs(qout.results) = OthersAtLeast(85)
        ELSE ResultIDs(qout.results) = OthersAtLeast(qout.threshold)

\* A detector made with 0 has left out an entry of another symbol whose
\* similarity is 0.6.
C30_Witness ==
    /\ qout.op = "detect"
    /\ qout.err = "nil"
    /\ qout.threshold = 0
    /\ OthersAtLeast(0) # OthersAtLeast(60)
    /\ OthersAtLeast(60) # OthersAtLeast(85)
    /\ ResultIDs(qout.results) = OthersAtLeast(85)

\* C26: a GenerateEmbedding call that fails returns an error and no vector,
\* and GenerateForAnalysis appends nothing for it: every entry of the index
\* carries a non-empty vector that a backend returned, and the entries are
\* as many as the calls that succeeded.
C26_NoPlaceholderVector ==
    /\ \A e \in Entries(index) :
           /\ e.Embedding.len > 0
           /\ e.Embedding.prov \in {"Ollama", "OpenAI"}
    /\ Len(index.Embeddings) + warnings = ncalls
    /\ (last.err \notin {"none", "nil"}) =>
           /\ last.prov = ""
           /\ \A e \in Entries(index) :
                  ~(/\ e.FilePath = last.unit.file
                    /\ e.FuncName = last.unit.func
                    /\ e.StartLine = last.unit.line)

\* Local failed and Remote failed too, on a build that has already embedded
\* a function.
C26_Witness ==
    /\ last.localErr
    /\ last.err = "openai"
    /\ Len(index.Embeddings) > 0
    /\ warnings > 0

\* C22: a build gives each function the id an earlier build over the same
\* source gave it, whatever the order in which the files are visited and
\* whichever backend embeds it, and it visits as many functions as the
\* earlier build did.
C22_StableIDs ==
    /\ \A e \in Entries(index) : \E b \in Entries(BaselineDoc.doc) :
           /\ b.FilePath = e.FilePath
           /\ b.FuncName = e.FuncName
           /\ b.StartLine = e.StartLine
           /\ b.ID = e.ID
    /\ \A e, f \in Entries(index) :
           (e.FilePath = f.FilePath /\ e.FuncName = f.FuncName /\
            e.StartLine = f.StartLine) <=> e.ID = f.ID
    /\ Generated => ncalls = Len(BaselineDoc.doc.Embeddings)

\* A finished build that visited b.go first and had its first function
\* embedded by OpenAI, where the earlier build visited a.go first and used
\* Ollama.
C22_Witness ==
    /\ Generated
    /\ Len(index.Embeddings) = NumUnits
    /\ index.Embeddings[1].FilePath = "b.go"
    /\ index.Embeddings[1].Embedding.prov = "OpenAI"

\* C27: once `context clear` has returned without an error after a build
\* that saved its index, neither context.json nor that index is on disk,
\* and LoadIndex finds no file.
C27_ClearRemovesIndex ==
    (pc = "cleared" /\ saveErr = "nil") =>
        /\ contextFile = "absent"
        /\ indexFile = Absent
        /\ LoadIndex(indexFile).err = "read"

\* C23: when the analysis returns without an error, every file it was
\* asked to analyse that can be read and parsed is in the result, and every
\* Go file that fails to parse is left out of Files and named among the
\* failures the result reports.
C23_ParseFailureRecorded ==
    analysis.err = "nil" =>
        \A i \in 1..Len(repo) :
            repo[i].path \in analysis.asked =>
                /\ repo[i].ok => repo[i].path \in DOMAIN analysis.Files
                /\ (~repo[i].ok /\ repo[i].lang = "Go") =>
                       /\ repo[i].path \notin DOMAIN analysis.Files
                       /\ repo[i].path \in analysis.Errors

\* C24: a readable source file in a language without a parser contributes
\* exactly one unit to the functions GenerateForAnalysis visits.
C24_HeuristicUnit ==
    units.done =>
        \A i \in 1..Len(repo) :
            (repo[i].lang # "Go" /\ repo[i].ok) =>
                Cardinality({j \in 1..Len(units.list) :
                                units.list[j].FilePath = repo[i].path}) = 1

\* A decision point: an if, a for or range loop, a case arm of a switch or
\* select, or an && or || operator.
IsDecision(n) ==
    \/ n.kind \in {"IfStmt", "ForStmt", "RangeStmt", "CaseClause",
                   "CommClause"}
    \/ (n.kind = "BinaryExpr" /\ n.op \in {"&&", "||"})

\* C25: the complexity recorded for a function is 1 plus the number of
\* decision points in its body, so it is 1 for a body without any and never
\* less than 1.
C25_Complexity ==
    analysis.err = "nil" =>
        \A i \in 1..Len(repo) :
            repo[i].path \in DOMAIN analysis.Files =>
                LET fns == analysis.Files[repo[i].path].Functions
                IN  /\ Len(fns) = Len(repo[i].funcs)
                    /\ \A j \in 1..Len(fns) :
                           LET body == repo[i].funcs[j].body
                           IN  /\ fns[j].Complexity =
                                      1 + Cardinality({k \in 1..Len(body) :
                                                          IsDecision(body[k])})
                               /\ fns[j].Complexity >= 1

\* A function of three nodes, one of them an arithmetic expression, has
\* been given the complexity 3.
C25_Witness ==
    /\ analysis.err = "nil"
    /\ "a.go" \in DOMAIN analysis.Files
    /\ Len(repo[1].funcs[1].body) = 3
    /\ \E k \in 1..3 : repo[1].funcs[1].body[k] = Node("BinaryExpr", "+")
    /\ \E k \in 1..3 : repo[1].funcs[1].body[k] = Node("BinaryExpr", "&&")
    /\ analysis.Files["a.go"].Functions[1].Complexity = 3

\* C29: two functions GenerateForAnalysis visits that differ in file path,
\* name or start line are given different ids.
C29_InjectiveIDs ==
    units.done =>
        \A i, j \in 1..Len(units.list) :
            (\/ units.list[i].FilePath # units.list[j].FilePath
             \/ units.list[i].FuncName # units.list[j].FuncName
             \/ units.list[i].StartLine # units.list[j].StartLine) =>
                units.list[i].ID # units.list[j].ID

\* Both Go files hold fn1 at line 1 and fn at line 11, and all four
\* functions have been given their ids.
C29_Witness ==
    /\ units.done
    /\ Len(units.list) = 4
    /\ \E i, j \in 1..4 :
          /\ units.list[i].FilePath = units.list[j].FilePath
          /\ units.list[i].FuncName = "fn1" /\ units.list[i].StartLine = 1
          /\ units.list[j].FuncName = "fn" /\ units.list[j].StartLine = 11

====
